---- MODULE Spec2Model ----
(***************************************************************************)
(* Model of the split-flap HTTP task (http_task.cpp): the bring-up         *)
(* (connectWifi), the scheduler loop (run), the quote summary              *)
(* (addStockPriceToMessages) and the weather summary (handleData).         *)
(*                                                                         *)
(* uptime is the true time since boot; the code only ever sees            *)
(* millis() = uptime mod 2^32 ms.  wall is the local civil time of day;    *)
(* it advances in lock step with uptime (no NTP step, no DST change        *)
(* inside a run).  Of the logging only the read of buf is modelled.        *)
(***************************************************************************)
EXTENDS Integers, Sequences, FiniteSets, TLC

VARIABLES
    pc,                                 \* position of the task
    uptime,                             \* true time since boot
    wall,                               \* local time of day
    wifi,                               \* WiFi.status() as last read
    messages_,                          \* the message queue
    last_message_change_time_,          \* uint32
    intraMinuteDuplicationProtection,   \* uint32, local of run()
    m_lastSeenTime,                     \* last clock string stored
    lcd,                                \* display_task_ status lines 0 and 1
    json,                               \* the body handed to handleData
    ticks,                              \* loop iterations begun
    suspensions,                        \* long suspensions of the loop so far
    frame,                              \* the tick waiting in a quote request
    buf,                                \* char buf[] of run(): what it holds
    obs,                                \* what the last step did
    pushedLog,                          \* every string stored in the queue
    shownLog,                           \* every popped string shown
    lastShow,                           \* last showString, last queue advance
    lastFireAt                          \* uptime of the last scheduled firing

vars == <<pc, uptime, wall, wifi, messages_, last_message_change_time_,
          intraMinuteDuplicationProtection, m_lastSeenTime, lcd, json, ticks,
          suspensions, frame, buf, obs, pushedLog, shownLog, lastShow,
          lastFireAt>>

----------------------------------------------------------------------------
(* Time unit.  TLC's integers are 32-bit signed, so 2^32 milliseconds cannot
   be written.  Every instant of the model is a multiple of 8 ms and is
   counted in units of 8 ms: the 32-bit millisecond counter then wraps at
   2^32 / 8 = 2^29 units, and every interval of the code (1000, 5000, 10000,
   60000, 600000 ms) is a whole number of units. *)

MsPerUnit == 2 * 4

Ms(n) == n \div MsPerUnit

\* 2^32 milliseconds
TwoTo32 == 65536 * 8192

(* Program constants *)

REQUEST_INTERVAL_MILLIS == Ms(10 * 60 * 1000)
MESSAGE_CYCLE_INTERVAL_MILLIS == Ms(5 * 1000)
NUM_MODULES == 5
DayMillis == Ms(24 * 60 * 60 * 1000)
NightEdgeDelayOfQuiet == Ms(10000)
NightEdgeDelay == Ms(60000)
QuietDelay == Ms(10000)
LoopDelay == Ms(1000)
DebounceMillis == Ms(60000)

(* Bounds of the model *)

MaxTicks == 8
MaxSuspensions == 2
MaxStations == 3
MaxLiveHours == 13

----------------------------------------------------------------------------
(* Strings *)

RECURSIVE Spaces(_)
Spaces(n) == IF n <= 0 THEN "" ELSE " " \o Spaces(n - 1)

\* strlcpy + memset(' ') into buf, of which showString takes NUM_MODULES bytes
PadForDisplay(s) ==
    IF Len(s) >= NUM_MODULES THEN SubSeq(s, 1, NUM_MODULES)
    ELSE s \o Spaces(NUM_MODULES - Len(s))

\* showString(literal, NUM_MODULES, false): the first NUM_MODULES bytes
FirstModules(s) == SubSeq(s, 1, NUM_MODULES)

LowerChar(c) ==
    CASE c = "A" -> "a" [] c = "B" -> "b" [] c = "C" -> "c" [] c = "D" -> "d"
      [] c = "E" -> "e" [] c = "F" -> "f" [] c = "G" -> "g" [] c = "H" -> "h"
      [] c = "I" -> "i" [] c = "J" -> "j" [] c = "K" -> "k" [] c = "L" -> "l"
      [] c = "M" -> "m" [] c = "N" -> "n" [] c = "O" -> "o" [] c = "P" -> "p"
      [] c = "Q" -> "q" [] c = "R" -> "r" [] c = "S" -> "s" [] c = "T" -> "t"
      [] c = "U" -> "u" [] c = "V" -> "v" [] c = "W" -> "w" [] c = "X" -> "x"
      [] c = "Y" -> "y" [] c = "Z" -> "z" [] OTHER -> c

RECURSIVE ToLowerCase(_)
ToLowerCase(s) ==
    IF Len(s) = 0 THEN ""
    ELSE LowerChar(SubSeq(s, 1, 1)) \o ToLowerCase(SubSeq(s, 2, Len(s)))

RECURSIVE ZeroPad(_, _)
ZeroPad(s, w) == IF Len(s) >= w THEN s ELSE ZeroPad("0" \o s, w)

RECURSIVE LeftPad(_, _)
LeftPad(s, w) == IF Len(s) >= w THEN s ELSE LeftPad(" " \o s, w)

----------------------------------------------------------------------------
(* Clock *)

Millis(up) == up % TwoTo32

\* unsigned 32-bit a - b
USub(a, b) == (a - b) % TwoTo32

\* unsigned 32-bit a + b
UAdd(a, b) == (a + b) % TwoTo32

HMS(h, m, s) == Ms(((h * 60 + m) * 60 + s) * 1000)

Hour(w) == w \div Ms(3600000)

Minute(w) == (w \div Ms(60000)) % 60

Second(w) == (w \div Ms(1000)) % 60

Advance(w, d) == (w + d) % DayMillis

\* strftime(curTime, "t%H%M")
ClockString(w) ==
    "t" \o ZeroPad(ToString(Hour(w)), 2) \o ZeroPad(ToString(Minute(w)), 2)

----------------------------------------------------------------------------
(* The message queue *)

\* messages_.push(s): the queue's interface is that of std::queue (push,
\* front, pop, size, empty); no push site tests a size or a result, and every
\* string pushed is stored
Push(q, s) == Append(q, s)

RECURSIVE PushAll(_, _)
PushAll(q, ss) ==
    IF Len(ss) = 0 THEN q ELSE PushAll(Push(q, Head(ss)), Tail(ss))

\* messages_.front()
FrontNewest(q) == q[Len(q)]
Front(q) == Head(q)

\* messages_.pop()
PopAll(q) == <<>>
Pop(q) == Tail(q)

\* the strings of ss that pushing them onto q adds to it, in order
Stored(q, ss) == SubSeq(PushAll(q, ss), Len(q) + 1, Len(PushAll(q, ss)))

\* no tick is waiting in a quote request
NoFrame == [kind |-> "none"]

\* char buf[max(NUM_MODULES + 1, 200)] of run(): as declared, nothing has
\* been written to it
Uninitialised == "uninitialised"

\* after strlcpy and memset(buf + len, ' ', sizeof(buf) - len): the popped
\* string and spaces up to the last byte, no terminator
Padded == "padded"

\* after snprintf(buf, sizeof(buf), ...): a terminated text
Terminated == "terminated"

----------------------------------------------------------------------------
(* The quote summary: addStockPriceToMessages *)

Pow10(n) == CASE n = 0 -> 1 [] n = 1 -> 10 [] n = 2 -> 100 [] n = 3 -> 1000

Abs(x) == IF x < 0 THEN -x ELSE x

\* the position of the leading binary digit of n >= 1
RECURSIVE Log2(_)
Log2(n) == IF n < 2 THEN 0 ELSE 1 + Log2(n \div 2)

RECURSIVE Pow2(_)
Pow2(n) == IF n = 0 THEN 1 ELSE 2 * Pow2(n - 1)

\* how often p thousandths, 0 < p < 1000, is doubled to reach 1 or more
RECURSIVE Doublings(_)
Doublings(p) == IF p >= 1000 THEN 0 ELSE 1 + Doublings(2 * p)

\* r / 1000 to n binary places by long division, q being the digits found so
\* far: <<the digits, the remainder in thousandths>>
RECURSIVE BinaryDigits(_, _, _)
BinaryDigits(r, n, q) ==
    IF n = 0 THEN <<q, r>>
    ELSE BinaryDigits((2 * r) % 1000, n - 1, 2 * q + (2 * r) \div 1000)

\* price.toFloat() for the decimal text of price thousandths: the nearest
\* number with a 24-bit significand, ties to the even one.  The result is
\* whole + frac / 2^bits, negated when neg; below 1 it is frac / 2^bits with
\* frac the significand.
ToFloat(price) ==
    LET p     == Abs(price)
        a     == p \div 1000
        bits  == IF p = 0 THEN 0
                 ELSE IF a > 0 THEN 23 - Log2(a)
                 ELSE 23 + Doublings(p)
        d     == BinaryDigits(p % 1000, bits, 0)
        up    == 2 * d[2] > 1000 \/ (2 * d[2] = 1000 /\ d[1] % 2 = 1)
        f     == d[1] + (IF up THEN 1 ELSE 0)
        carry == a > 0 /\ f = Pow2(bits)
    IN  [neg |-> price < 0,
         whole |-> IF carry THEN a + 1 ELSE a,
         frac |-> IF carry THEN 0 ELSE f,
         bits |-> bits]

\* priceNum < t for a whole number t > 0
Below(priceNum, t) == priceNum.neg \/ priceNum.whole < t

\* y / 2^n, g and s being the digit last dropped and whether a digit set was
\* dropped before it: <<the quotient, the binary digit below it, whether any
\* digit below that is set>>
RECURSIVE Halve(_, _, _, _)
Halve(y, n, g, s) ==
    IF n = 0 THEN <<y, g, s>> ELSE Halve(y \div 2, n - 1, y % 2, s \/ g = 1)

\* n is one digit followed by zeros: n divided by its power of ten is exact
\* in binary floating point
RECURSIVE OneDigit(_)
OneDigit(n) == n < 10 \/ (n % 10 = 0 /\ OneDigit(n \div 10))

\* dtostrf(number, width, prec, buf) for a number toFloat() returned: every
\* text it can write.  The number, made positive, gets half a unit of the
\* last place added and its digits are then taken one by one by truncation,
\* in binary floating point; the text is right-justified in at least width
\* characters.  A number that lies exactly half way between two results
\* comes out as the upper or as the lower of them, as the floating-point
\* quotient decides (1000.5 with no decimals is written " 1000"); with no
\* decimals the sum is a whole number, and it comes out as the upper one
\* when its first quotient is exact (99999.5 is written "100000").
Dtostrf(number, width, prec) ==
    LET h      == Halve(number.frac * Pow10(prec), number.bits, 0, FALSE)
        up     == number.whole * Pow10(prec) + h[1] + h[2]
        tie    == h[2] = 1 /\ ~h[3]
        exact  == prec = 0 /\ OneDigit(up)
        sign   == IF number.neg THEN "-" ELSE ""
        Text(scaled) ==
            LeftPad(sign \o ToString(scaled \div Pow10(prec))
                    \o (IF prec = 0 THEN ""
                        ELSE "." \o ZeroPad(ToString(scaled % Pow10(prec)), prec)),
                    width)
    IN  {Text(up)} \cup (IF tie /\ ~exact THEN {Text(up - 1)} ELSE {})

\* what is written into strPrice for priceNum
FormatPrice(priceNum) ==
    IF Below(priceNum, 100) THEN Dtostrf(priceNum, 5, 2)
    ELSE IF Below(priceNum, 1000) THEN Dtostrf(priceNum, 5, 1)
    ELSE IF Below(priceNum, 100000) THEN Dtostrf(priceNum, 5, 0)
    ELSE {" big "}

\* char strPrice[6]: a text of more than 5 characters is written past the
\* end of the buffer.  Either the bytes behind it take no harm, the text is
\* pushed as written and the call returns; or the text is pushed as written
\* and the task dies before the call returns; or the task dies at the write,
\* before the push.  pushed says whether messages_.push(strPrice) ran,
\* crashed that the call did not return.
StrPriceOutcomes(priceNum) ==
    UNION { IF Len(t) <= 5
            THEN {[written |-> t, pushed |-> TRUE, crashed |-> FALSE]}
            ELSE {[written |-> t, pushed |-> TRUE, crashed |-> FALSE],
                  [written |-> t, pushed |-> TRUE, crashed |-> TRUE],
                  [written |-> t, pushed |-> FALSE, crashed |-> TRUE]} :
            t \in FormatPrice(priceNum) }

\* what http.GET() and the body can be: a failure at each level, a price
\* that fits its tier and one that rounds out of it (99.996)
QuoteResponses ==
    {[kind |-> k, price |-> 0] :
        k \in {"transport", "parse", "noquote", "noprice"}}
    \cup {[kind |-> "ok", price |-> p] : p \in {187230, 99996}}

\* the strings pushed by one call, and its return value
QuotePushes(symbol, resp, sp) ==
    IF resp.kind = "ok" /\ sp.pushed
    THEN <<ToLowerCase(symbol), sp.written>>
    ELSE <<ToLowerCase(symbol)>>

QuoteReturn(resp) == resp.kind \in {"ok", "transport"}

\* every outcome of addStockPriceToMessages(symbol) on queue q: begun is the
\* queue while the request is in flight, crashed says that the call did not
\* return
AddStockPriceToMessages(q, symbol, resp) ==
    { [symbol |-> symbol, resp |-> resp, before |-> q,
       begun |-> Push(q, ToLowerCase(symbol)),
       written |-> sp.written, pushed |-> sp.pushed,
       crashed |-> sp.crashed,
       offered |-> QuotePushes(symbol, resp, sp),
       after |-> PushAll(q, QuotePushes(symbol, resp, sp)),
       stored |-> Stored(q, QuotePushes(symbol, resp, sp)),
       ret |-> (QuoteReturn(resp) /\ ~sp.crashed)] :
      sp \in (IF resp.kind = "ok" THEN StrPriceOutcomes(ToFloat(resp.price))
              ELSE {[written |-> "", pushed |-> FALSE,
                     crashed |-> FALSE]}) }

\* Prices a quote can carry, in thousandths: around the limits of the tiers,
\* negative ones, numbers toFloat() holds exactly that lie half way between
\* two results (0.125, 100.25, 1000.5, 99999.5), and texts toFloat() rounds
\* to such a number (99999.497) or into the next tier (99999.997)
Prices ==
    {-1234500, -12346, -1500, -1, 0, 1, 125, 1234, 9999, 50000}
    \cup (99980..99999)
    \cup {100000, 100040, 100250, 187230, 999940}
    \cup (999951..999999)
    \cup {1000000, 1000500, 12345000, 99999000, 99999496, 99999497,
          99999500, 99999997, 100000000, 250000000}

\* how long http.GET() takes
GetMillis == {Ms(2 * 1000)}

\* one call of addStockPriceToMessages("AMZN") whose request succeeds, on an
\* empty queue, for each price
InitPrice ==
    /\ pc = "quote"
    /\ json \in {[kind |-> "ok", price |-> p] : p \in Prices}
    /\ messages_ = <<>>
    /\ wall = HMS(14, 23, 45)
    /\ uptime = Ms(8 * 1000)
    /\ wifi = "WL_CONNECTED"
    /\ last_message_change_time_ = 0
    /\ intraMinuteDuplicationProtection = 0
    /\ m_lastSeenTime = ""
    /\ lcd = <<"", "">>
    /\ ticks = 0
    /\ obs = [kind |-> "none"]
    /\ pushedLog = <<>>
    /\ shownLog = <<>>
    /\ lastShow = [at |-> -1, src |-> "none", popAt |-> -1, nightAt |-> -1]
    /\ lastFireAt = -1
    /\ frame = NoFrame
    /\ suspensions = 0
    /\ buf = Uninitialised

\* the queue as the quote call in flight found it: all but the symbol it
\* has pushed
BeforeSymbol(q) == SubSeq(q, 1, Len(q) - 1)

\* the call up to its request: the symbol is pushed, and http.GET() waits
QuoteRequest ==
    /\ pc = "quote"
    /\ pc' = "priceGet"
    /\ messages_' = Push(messages_, ToLowerCase("AMZN"))
    /\ pushedLog' = pushedLog \o Stored(messages_, <<ToLowerCase("AMZN")>>)
    /\ obs' = [kind |-> "quoteRequest", qBefore |-> messages_,
               stored |-> Stored(messages_, <<ToLowerCase("AMZN")>>)]
    /\ UNCHANGED <<buf, suspensions, frame, uptime, wall, wifi,
                   last_message_change_time_,
                   intraMinuteDuplicationProtection, m_lastSeenTime, lcd, json,
                   ticks, shownLog, lastShow, lastFireAt>>

\* http.GET() returns after its time and the call runs to its return or to
\* the task's death
QuotePrice ==
    /\ pc = "priceGet"
    /\ \E d \in GetMillis :
       \E a \in AddStockPriceToMessages(BeforeSymbol(messages_), "AMZN", json) :
          /\ a.begun = messages_
          /\ pc' = IF a.crashed THEN "crashed" ELSE "done"
          /\ uptime' = uptime + d
          /\ wall' = Advance(wall, d)
          /\ messages_' = a.after
          /\ pushedLog' = pushedLog \o Stored(messages_, Tail(a.offered))
          /\ obs' = [kind |-> "quote", price |-> json.price,
                     priceNum |-> ToFloat(json.price),
                     written |-> a.written, pushed |-> a.pushed,
                     crashed |-> a.crashed,
                     offered |-> a.offered, stored |-> a.stored,
                     qBefore |-> a.before]
    /\ UNCHANGED <<buf, suspensions, frame, wifi, last_message_change_time_,
                   intraMinuteDuplicationProtection, m_lastSeenTime, lcd, json,
                   ticks, shownLog, lastShow, lastFireAt>>

NextPrice == QuoteRequest \/ QuotePrice

SpecPrice == InitPrice /\ [][NextPrice]_vars

----------------------------------------------------------------------------
(* The scheduler loop: run *)

\* wl_status_t: every value WiFi.status() can return
WifiStatuses ==
    {"WL_NO_SHIELD", "WL_IDLE_STATUS", "WL_NO_SSID_AVAIL", "WL_SCAN_COMPLETED",
     "WL_CONNECTED", "WL_CONNECT_FAILED", "WL_CONNECTION_LOST",
     "WL_DISCONNECTED"}

\* the switch on WiFi.status() that builds the status line
WifiStatusText(st) ==
    CASE st = "WL_IDLE_STATUS"     -> "Idle"
      [] st = "WL_NO_SSID_AVAIL"   -> "No SSID"
      [] st = "WL_CONNECTED"       -> "<ssid> <ip>"
      [] st = "WL_CONNECT_FAILED"  -> "Connection failed"
      [] st = "WL_CONNECTION_LOST" -> "Connection lost"
      [] st = "WL_DISCONNECTED"    -> "Disconnected"
      [] OTHER                     -> "Unknown"

\* WiFi.status() == WL_CONNECTED
Connected(st) == st = "WL_CONNECTED"

\* tm_hour == 21 && tm_min == 0
IsNightEdge(w) == Hour(w) = 21 /\ Minute(w) = 0

\* tm_hour >= 21 || tm_hour <= 8
IsQuietHourShort(h) == h >= 21 \/ h < 8
IsQuietHour(h) == h >= 21 \/ h <= 8

\* now - intraMinuteDuplicationProtection > 60000
DebounceOpen(now, last) == USub(now, last) > DebounceMillis

\* the else-if chain on (tm_hour, tm_min)
ScheduledRow(h, m) ==
    IF h = 9 /\ m = 0 THEN "0900"
    ELSE IF h = 11 /\ m = 35 THEN "1135"
    ELSE IF h = 12 /\ m = 0 THEN "1200"
    ELSE IF h = 13 /\ m = 0 THEN "1300"
    ELSE IF h = 13 /\ m = 55 THEN "1355"
    ELSE IF h = 17 /\ m = 0 THEN "1700"
    ELSE "none"

\* the literals a row pushes itself
RowStrings(row) ==
    CASE row = "0900" -> <<"wakey", "wakey", "eggsn", "bakey">>
      [] row = "1135" -> <<"symbl", "price">>
      [] row = "1200" -> <<"it's", "lunch", "time">>
      [] row = "1300" -> <<"back", "to", "work">>
      [] row = "1355" -> <<"test", "1", "2">>
      [] row = "1700" -> <<"nice", "work">>
      [] OTHER        -> <<>>

Call(op, text, src) == [op |-> op, text |-> text, src |-> src]

NoShow == [at |-> -1, src |-> "none", popAt |-> -1, nightAt |-> -1]

\* WiFi.status() is read up to three times in a tick, and each read gives
\* what the link is at that moment: in the 11:35 row before the reconnect
\* and again after it, and in every tick for the status line
Unread == "unread"

\* what the comparison of a read with WL_CONNECTED finds
LinkUp(st) ==
    IF st = Unread THEN Unread ELSE IF Connected(st) THEN "up" ELSE "down"

\* the reads of a step as the code uses them: the two of the 11:35 row are
\* only compared with WL_CONNECTED, the third selects the status text
Reads(up419, up424, st499) ==
    [at419 |-> up419, at424 |-> up424, at499 |-> st499]

NoReads == Reads(Unread, Unread, Unread)

\* what the two comparisons of the scheduled-event block can find for a
\* row, over every pair of values WiFi.status() can return.  WiFi.reconnect()
\* between them changes no variable of the task, so the two reads are drawn
\* in the step that begins the tick.
StatusReads(row) ==
    IF row = "1135"
    THEN {<<LinkUp(st419), LinkUp(st424)>> : st419, st424 \in WifiStatuses}
    ELSE {<<Unread, Unread>>}

\* The scheduled-event block on queue q, up to its end or to the first quote
\* request it waits for: the queue after it, the strings pushed and those of
\* them stored, the calls made, whether the debounce timer was set, and
\* where the tick goes on ("amznGet": in the request for AMZN, whose symbol
\* is pushed).
\* up419 and up424 are what the comparisons of WiFi.status() with
\* WL_CONNECTED find in the 11:35 row.
ScheduledOutcomes(q, row, up419, up424) ==
    IF row = "none" THEN
        {[q |-> q, offered |-> <<>>, stored |-> <<>>, calls |-> <<>>,
          fired |-> FALSE, next |-> "done"]}
    ELSE IF row = "1135" THEN
        LET pre   == IF up419 = "up" THEN <<>>
                     ELSE <<Call("reconnect", "", "")>>
            begun == RowStrings(row) \o <<ToLowerCase("AMZN")>>
        IN  IF up424 # "up" THEN
                {[q |-> q, offered |-> <<>>, stored |-> <<>>, calls |-> pre,
                  fired |-> FALSE, next |-> "done"]}
            ELSE
                {[q |-> PushAll(q, begun), offered |-> begun,
                  stored |-> Stored(q, begun), calls |-> pre,
                  fired |-> FALSE, next |-> "amznGet"]}
    ELSE
        {[q |-> PushAll(q, RowStrings(row)),
          offered |-> RowStrings(row),
          stored |-> Stored(q, RowStrings(row)),
          calls |-> IF row = "0900" THEN <<Call("resetAll", "", "")>> ELSE <<>>,
          fired |-> TRUE, next |-> "done"]}

\* messages_.size() && now - last_message_change_time_ > MESSAGE_CYCLE_INTERVAL_MILLIS
PopDue(q, now, last) ==
    Len(q) > 0 /\ USub(now, last) > MESSAGE_CYCLE_INTERVAL_MILLIS

\* now > last_message_change_time_ + MESSAGE_CYCLE_INTERVAL_MILLIS
ClockDue(now, last) == now > UAdd(last, MESSAGE_CYCLE_INTERVAL_MILLIS)

\* curTime != m_lastSeenTime.c_str(): the addresses of a stack array and of
\* the String's buffer are compared, and they always differ
CurTimeDiffers(curTime, lastSeen) == TRUE

\* what a step records of itself, taken in the state it starts from.  A
\* tick reads millis() at once (now, at uptime at) and time() a time gap
\* later (wallAt, at uptime readAt); st is the reads of WiFi.status() it made
Observe(kind, gap, st, calls, row, stored, quotes, delay) ==
    [kind |-> kind, st |-> st,
     hour |-> Hour(Advance(wall, gap)), min |-> Minute(Advance(wall, gap)),
     wallAt |-> Advance(wall, gap), gap |-> gap, readAt |-> uptime + gap,
     now |-> Millis(uptime), at |-> uptime, calls |-> calls, row |-> row,
     stored |-> stored, quotes |-> quotes, delay |-> delay, died |-> FALSE,
     qBefore |-> messages_, seenBefore |-> m_lastSeenTime,
     changeBefore |-> last_message_change_time_,
     fireBefore |-> intraMinuteDuplicationProtection,
     prevShow |-> lastShow, prevFireAt |-> lastFireAt]

\* the civil time at power-on
PowerOnTimes ==
    {HMS(20, 59, 45), HMS(8, 59, 45), HMS(11, 34, 35), HMS(11, 59, 45),
     HMS(12, 0, 20), HMS(12, 54, 40), HMS(14, 23, 45)}

\* how long WiFi.status() takes to become WL_CONNECTED and time() to pass
\* the threshold
WifiWaitMillis == {Ms(3 * 1000), Ms(65 * 1000)}

NtpWaitMillis == {Ms(3 * 1000)}

\* time that passes in a tick between its reading millis() and its reading
\* time(), two calls between which the task can be preempted: nothing, or a
\* long suspension
ReadGapMillis == {0, Ms(5 * 60 * 1000)}

\* time a tick spends between reading time() and the display cycling
\* (reconnect, preemption): nothing, or a long suspension
WorkMillis == {0, Ms(5 * 60 * 1000)}

\* 1 for a long suspension, 0 for none
Long(d) == IF d > 0 THEN 1 ELSE 0

\* the task as constructed, powered on at one of the given times of day
PowerOn(times) ==
    /\ pc = "connectWifi"
    /\ uptime = 0
    /\ wall \in times
    /\ wifi = Unread
    /\ messages_ = <<>>
    /\ last_message_change_time_ = 0
    /\ intraMinuteDuplicationProtection = 0
    /\ m_lastSeenTime = ""
    /\ lcd = <<"", "">>
    /\ json = "none"
    /\ ticks = 0
    /\ obs = [kind |-> "none"]
    /\ pushedLog = <<>>
    /\ shownLog = <<>>
    /\ lastShow = NoShow
    /\ lastFireAt = -1
    /\ frame = NoFrame
    /\ suspensions = 0
    /\ buf = Uninitialised

Init == PowerOn(PowerOnTimes)

\* connectWifi() up to its first wait: WiFi.begin and the status line
BeginConnect ==
    /\ pc = "connectWifi"
    /\ pc' = "wifiWait"
    /\ lcd' = <<lcd[1], "Wifi connecting to <ssid>">>
    /\ obs' = Observe("wifiBegin", 0, NoReads, <<>>, "none", <<>>, <<>>, 0)
    /\ UNCHANGED <<buf, suspensions, frame, uptime, wall, wifi, messages_, last_message_change_time_,
                   intraMinuteDuplicationProtection, m_lastSeenTime, json,
                   ticks, pushedLog, shownLog, lastShow, lastFireAt>>

\* while (WiFi.status() != WL_CONNECTED) delay(1000): the rounds of the wait
\* change nothing but the time, and are taken together with the read that
\* ends it.  The wait ends when the link comes up; while it does not, the
\* task stays here.  Then the NTP status line.
WifiUp ==
    /\ pc = "wifiWait"
    /\ \E d \in WifiWaitMillis :
          /\ uptime' = uptime + d
          /\ wall' = Advance(wall, d)
          /\ obs' = Observe("wifiUp", 0, NoReads,
                            <<>>, "none", <<>>, <<>>, d)
    /\ pc' = "ntpWait"
    /\ wifi' = "WL_CONNECTED"
    /\ lcd' = <<lcd[1], "Syncing NTP time via time.nist.gov...">>
    /\ UNCHANGED <<buf, suspensions, frame, messages_, last_message_change_time_,
                   intraMinuteDuplicationProtection, m_lastSeenTime, json,
                   ticks, pushedLog, shownLog, lastShow, lastFireAt>>

\* while (time(&now), now < 1625099485) delay(1000), taken likewise; then
\* showString("hi...") and addStockPriceToMessages("AMZN") up to its
\* request: the symbol is pushed
NtpSynced ==
    /\ pc = "ntpWait"
    /\ \E d \in NtpWaitMillis :
          /\ uptime' = uptime + d
          /\ wall' = Advance(wall, d)
          /\ obs' = Observe("ntpSynced", 0, NoReads,
                            <<Call("showString", FirstModules("hi..."),
                                   "welcome")>>,
                            "none", Stored(messages_, <<ToLowerCase("AMZN")>>),
                            <<>>, d)
          /\ lastShow' = [at |-> uptime + d, src |-> "welcome",
                           popAt |-> lastShow.popAt,
                           nightAt |-> lastShow.nightAt]
    /\ pc' = "quoteGet"
    /\ messages_' = Push(messages_, ToLowerCase("AMZN"))
    /\ pushedLog' = pushedLog \o Stored(messages_, <<ToLowerCase("AMZN")>>)
    /\ UNCHANGED <<buf, suspensions, frame, wifi, last_message_change_time_,
                   intraMinuteDuplicationProtection, m_lastSeenTime, lcd, json,
                   ticks, shownLog, lastFireAt>>

\* the tick whose time() is in 21:00: "night", disableAll, delay(60000),
\* continue; may says whether the model lets the loop go round once more
NightEdgeStep(may) ==
    /\ pc = "loop"
    /\ may
    /\ \E gap \in ReadGapMillis :
          /\ suspensions + Long(gap) <= MaxSuspensions
          /\ suspensions' = suspensions + Long(gap)
          /\ IsNightEdge(Advance(wall, gap))
          /\ uptime' = uptime + gap + NightEdgeDelay
          /\ wall' = Advance(wall, gap + NightEdgeDelay)
          /\ obs' = Observe("nightEdge", gap, NoReads,
                            <<Call("showString", FirstModules("night"), "night"),
                              Call("disableAll", "", "")>>,
                            "none", <<>>, <<>>, NightEdgeDelay)
          /\ lastShow' = [at |-> uptime + gap, src |-> "night",
                           popAt |-> lastShow.popAt, nightAt |-> uptime + gap]
    /\ ticks' = ticks + 1
    /\ UNCHANGED <<buf, frame, pc, wifi, messages_, last_message_change_time_,
                   intraMinuteDuplicationProtection, m_lastSeenTime, lcd, json,
                   pushedLog, shownLog, lastFireAt>>

TickNightEdge == NightEdgeStep(ticks < MaxTicks)

\* a tick whose time() is in the night: delay(10000), continue
QuietStep(may) ==
    /\ pc = "loop"
    /\ may
    /\ \E gap \in ReadGapMillis :
          /\ suspensions + Long(gap) <= MaxSuspensions
          /\ suspensions' = suspensions + Long(gap)
          /\ ~IsNightEdge(Advance(wall, gap))
          /\ IsQuietHour(Hour(Advance(wall, gap)))
          /\ uptime' = uptime + gap + QuietDelay
          /\ wall' = Advance(wall, gap + QuietDelay)
          /\ obs' = Observe("quiet", gap, NoReads, <<>>, "none", <<>>, <<>>,
                            QuietDelay)
    /\ ticks' = ticks + 1
    /\ UNCHANGED <<buf, frame, pc, wifi, messages_, last_message_change_time_,
                   intraMinuteDuplicationProtection, m_lastSeenTime, lcd, json,
                   pushedLog, shownLog, lastShow, lastFireAt>>

TickQuiet == QuietStep(ticks < MaxTicks)

\* logger_.log(buf) in the clock branch reads buf up to its terminator.
\* After a pop buf holds the padded string and no terminator, and as declared
\* it holds nothing written: the read then runs past the end of buf, and
\* either finds a zero byte behind it and the tick goes on, or the task dies
\* at the read.
LogDies(b) == IF b = Terminated THEN {FALSE} ELSE {FALSE, TRUE}

\* the display cycling of a tick on queue q, every outcome: the showString
\* call, if any, what buf holds after it, and whether the task died in it
CycleCalls(q, now, w) ==
    IF PopDue(q, now, last_message_change_time_)
    THEN {[show |-> <<Call("showString", PadForDisplay(Front(q)), "queue")>>,
           buf |-> Padded, died |-> FALSE]}
    ELSE IF ClockDue(now, last_message_change_time_)
    THEN { IF dies THEN [show |-> <<>>, buf |-> buf, died |-> TRUE]
           ELSE IF IsQuietHour(Hour(w))
           THEN [show |-> <<Call("showString", FirstModules("night"), "night")>>,
                 buf |-> buf, died |-> FALSE]
           ELSE IF CurTimeDiffers(ClockString(w), m_lastSeenTime)
           THEN [show |-> <<Call("showString", FirstModules(ClockString(w)),
                                 "clock")>>,
                 buf |-> Terminated, died |-> FALSE]
           ELSE [show |-> <<>>, buf |-> buf, died |-> FALSE] :
           dies \in LogDies(buf) }
    ELSE {[show |-> <<>>, buf |-> buf, died |-> FALSE]}

\* The rest of a tick of the day after its scheduled-event block: the
\* debounce timer, the display cycling, the status line and delay(1000); or
\* the task's death in the display cycling, before the status line.
\* o0 is what the tick recorded when it began, q the queue the block left,
\* elapsed the time since the tick read millis().  The debounce timer gets
\* the tick's now, although the row is pushed after time() was read.
FinishTick(o0, q, calls, stored, quotes, fired, row, st499, elapsed) ==
    \E c \in CycleCalls(q, o0.now, o0.wallAt) :
    LET show == c.show
        src  == IF show = <<>> THEN "none" ELSE show[1].src
        end  == o0.at + elapsed
    IN  /\ pc' = IF c.died THEN "crashed" ELSE "loop"
        /\ frame' = NoFrame
        /\ buf' = c.buf
        /\ intraMinuteDuplicationProtection' =
              IF fired THEN o0.now ELSE intraMinuteDuplicationProtection
        /\ messages_' = IF src = "queue" THEN Pop(q) ELSE q
        /\ last_message_change_time_' =
              IF src = "queue" THEN Millis(end) ELSE last_message_change_time_
        /\ m_lastSeenTime' =
              IF src = "clock" THEN ClockString(o0.wallAt) ELSE m_lastSeenTime
        /\ wifi' = IF c.died THEN wifi ELSE st499
        /\ lcd' = IF c.died THEN lcd
                  ELSE <<lcd[1], "Wifi: " \o WifiStatusText(st499)>>
        /\ uptime' = IF c.died THEN end ELSE end + LoopDelay
        /\ wall' = Advance(o0.wallAt, elapsed - o0.gap
                                      + (IF c.died THEN 0 ELSE LoopDelay))
        /\ obs' = [o0 EXCEPT !.st = Reads(o0.st.at419, o0.st.at424,
                                          IF c.died THEN Unread ELSE st499),
                             !.calls = calls \o show,
                             !.row = IF fired THEN row ELSE "none",
                             !.stored = stored, !.quotes = quotes,
                             !.delay = IF c.died THEN 0 ELSE LoopDelay,
                             !.died = c.died]
        /\ shownLog' = IF src = "queue" THEN Append(shownLog, show[1].text)
                       ELSE shownLog
        /\ lastShow' = IF src = "none" THEN lastShow
                       ELSE [at |-> end, src |-> src,
                             popAt |-> IF src = "queue" THEN end
                                       ELSE lastShow.popAt,
                             nightAt |-> IF src = "night" THEN end
                                         ELSE lastShow.nightAt]
        /\ lastFireAt' = IF fired THEN o0.readAt ELSE lastFireAt
        /\ UNCHANGED json

\* a tick whose time() is in the day, to its end or, in the 11:35 row with
\* the network up, to the request for the AMZN quote
ActiveStep(may) ==
    /\ pc = "loop"
    /\ may
    /\ ticks' = ticks + 1
    /\ \E gap \in ReadGapMillis, work \in WorkMillis, st499 \in WifiStatuses :
       LET now  == Millis(uptime)
           tNow == Advance(wall, gap)
           row  == IF DebounceOpen(now, intraMinuteDuplicationProtection)
                   THEN ScheduledRow(Hour(tNow), Minute(tNow))
                   ELSE "none"
       IN  /\ ~IsNightEdge(tNow)
           /\ ~IsQuietHour(Hour(tNow))
           /\ \E reads \in StatusReads(row) :
              \E o \in ScheduledOutcomes(messages_, row, reads[1], reads[2]) :
              LET o0 == Observe("active", gap,
                                Reads(reads[1], reads[2], Unread),
                                o.calls, "none", o.stored, <<>>, 0)
              IN  /\ pushedLog' = pushedLog \o o.stored
                  /\ IF o.next = "amznGet" THEN
                         /\ work = 0
                         /\ suspensions + Long(gap) <= MaxSuspensions
                         /\ suspensions' = suspensions + Long(gap)
                         /\ pc' = "amznGet"
                         /\ frame' = o0
                         /\ messages_' = o.q
                         /\ uptime' = uptime + gap
                         /\ wall' = tNow
                         /\ obs' = [o0 EXCEPT !.kind = "row1135"]
                         /\ UNCHANGED <<buf, wifi, last_message_change_time_,
                                        intraMinuteDuplicationProtection,
                                        m_lastSeenTime, lcd, json, shownLog,
                                        lastShow, lastFireAt>>
                     ELSE /\ suspensions + Long(gap) + Long(work)
                                <= MaxSuspensions
                          /\ suspensions' =
                                suspensions + Long(gap) + Long(work)
                          /\ FinishTick(o0, o.q, o.calls, o.stored, <<>>,
                                        o.fired, row, st499, gap + work)

\* the symbol of the quote request in flight
QuoteSymbol(p) == IF p = "vooGet" THEN "VOO" ELSE "AMZN"

\* http.GET() of addStockPriceToMessages returns and the call runs to its
\* end, or the task dies in the call, before or after the price is pushed.
\* Then the caller goes on.  Bring-up sets last_message_change_time_ = millis(), and run()
\* initialises its local before the loop.  The 11:35 row, after the AMZN
\* quote, calls addStockPriceToMessages("VOO") up to its request; after the
\* VOO quote it sets the debounce timer and the tick goes on to its end.
QuoteReturns ==
    /\ pc \in {"quoteGet", "amznGet", "vooGet"}
    /\ \E d \in GetMillis, resp \in QuoteResponses, st499 \in WifiStatuses :
       \E a \in AddStockPriceToMessages(BeforeSymbol(messages_),
                                        QuoteSymbol(pc), resp) :
       LET price == Stored(messages_, Tail(a.offered))
           voo   == Stored(a.after, <<ToLowerCase("VOO")>>)
       IN  /\ a.begun = messages_
           /\ IF pc = "quoteGet" THEN
                  /\ pc' = IF a.crashed THEN "crashed" ELSE "loop"
                  /\ uptime' = uptime + d
                  /\ wall' = Advance(wall, d)
                  /\ messages_' = a.after
                  /\ last_message_change_time_' =
                        IF a.crashed THEN last_message_change_time_
                        ELSE Millis(uptime + d)
                  /\ intraMinuteDuplicationProtection' = 0
                  /\ obs' = Observe("connectWifi", 0, NoReads, <<>>, "none",
                                    price, <<a>>, d)
                  /\ pushedLog' = pushedLog \o price
                  /\ lastShow' = IF a.crashed THEN lastShow
                                  ELSE [lastShow EXCEPT !.popAt = uptime + d]
                  /\ UNCHANGED <<buf, suspensions, frame, wifi, m_lastSeenTime, lcd, json,
                                 ticks, shownLog, lastFireAt>>
              ELSE IF a.crashed THEN
                  /\ pc' = "crashed"
                  /\ frame' = NoFrame
                  /\ uptime' = uptime + d
                  /\ wall' = Advance(wall, d)
                  /\ messages_' = a.after
                  /\ obs' = [frame EXCEPT !.stored = @ \o price,
                                          !.quotes = Append(@, a)]
                  /\ pushedLog' = pushedLog \o price
                  /\ UNCHANGED <<buf, suspensions, wifi,
                                 last_message_change_time_,
                                 intraMinuteDuplicationProtection,
                                 m_lastSeenTime, lcd, json, ticks,
                                 shownLog, lastShow, lastFireAt>>
              ELSE IF pc = "amznGet" THEN
                  /\ pc' = "vooGet"
                  /\ frame' = [frame EXCEPT !.stored = @ \o price \o voo,
                                            !.quotes = Append(@, a)]
                  /\ uptime' = uptime + d
                  /\ wall' = Advance(wall, d)
                  /\ messages_' = Push(a.after, ToLowerCase("VOO"))
                  /\ obs' = [frame EXCEPT !.kind = "row1135",
                                          !.stored = @ \o price \o voo,
                                          !.quotes = Append(@, a)]
                  /\ pushedLog' = pushedLog \o price \o voo
                  /\ UNCHANGED <<buf, suspensions, wifi,
                                 last_message_change_time_,
                                 intraMinuteDuplicationProtection,
                                 m_lastSeenTime, lcd, json, ticks, shownLog,
                                 lastShow, lastFireAt>>
              ELSE
                  /\ pushedLog' = pushedLog \o price
                  /\ ticks' = ticks
                  /\ suspensions' = suspensions
                  /\ FinishTick(frame, a.after, frame.calls,
                                frame.stored \o price, Append(frame.quotes, a),
                                TRUE, "1135", st499, uptime + d - frame.at)

TickActive == ActiveStep(ticks < MaxTicks)

Next ==
    \/ BeginConnect \/ WifiUp \/ NtpSynced \/ QuoteReturns
    \/ TickNightEdge \/ TickQuiet \/ TickActive

Spec == Init /\ [][Next]_vars

----------------------------------------------------------------------------
(* The loop left to run for as long as a string is pending: power-on just
   before 21:00, so that the strings pushed by bring-up wait through the
   night *)

LivePowerOnTimes == {HMS(20, 59, 55)}

InitLive == PowerOn(LivePowerOnTimes)

\* the loop goes round MaxTicks times, and on for as long as a string is
\* pending, up to MaxLiveHours of uptime
LiveBudget ==
    \/ ticks < MaxTicks
    \/ (messages_ # <<>> /\ uptime < Ms(MaxLiveHours * 3600 * 1000))

LiveNightEdge == NightEdgeStep(LiveBudget)

LiveQuiet == QuietStep(LiveBudget)

LiveActive == ActiveStep(LiveBudget)

NextLive ==
    \/ BeginConnect \/ WifiUp \/ NtpSynced \/ QuoteReturns
    \/ LiveNightEdge \/ LiveQuiet \/ LiveActive

\* while (1) with delays: the loop keeps ticking
SpecLive == InitLive /\ [][NextLive]_vars /\ WF_vars(NextLive)

----------------------------------------------------------------------------
(* The loop when millis() wraps: the task has been up for a little less than
   2^32 ms (49.7 days), it is the afternoon, the 13:55 row was the last to
   fire and the last queue pop was a moment ago *)

\* how long before the wrap the first tick reads millis()
WrapLeads == {Ms(3 * 1000), Ms(8 * 1000)}

\* how long ago the last pop set last_message_change_time_
SincePops == {Ms(1 * 1000), Ms(10 * 1000)}

InitWrap ==
    /\ pc = "loop"
    /\ uptime \in {TwoTo32 - lead : lead \in WrapLeads}
    /\ wall = HMS(14, 23, 45)
    /\ wifi = "WL_CONNECTED"
    /\ \E since \in SincePops :
          /\ last_message_change_time_ = Millis(uptime - since)
          /\ lastShow = [at |-> uptime - since, src |-> "queue",
                         popAt |-> uptime - since, nightAt |-> -1]
          /\ messages_ \in (IF since = LoopDelay THEN {<<>>, <<"1", "2">>}
                             ELSE {<<>>})
    /\ intraMinuteDuplicationProtection =
          Millis(uptime - (HMS(14, 23, 45) - HMS(13, 55, 0)))
    /\ lastFireAt = uptime - (HMS(14, 23, 45) - HMS(13, 55, 0))
    /\ frame = NoFrame
    /\ suspensions = 0
    /\ buf = Padded
    /\ m_lastSeenTime = "t1423"
    /\ lcd = <<"", "Wifi: <ssid> <ip>">>
    /\ json = "none"
    /\ ticks = 0
    /\ obs = [kind |-> "none"]
    /\ pushedLog = messages_
    /\ shownLog = <<>>

NextWrap == TickActive

SpecWrap == InitWrap /\ [][NextWrap]_vars

----------------------------------------------------------------------------
(* The weather summary: fetchData and handleData *)

\* A station entry holds a temperature (degrees, integer) and a wind speed
\* (hundredths of a knot), each as <<v>>, or <<>> when the entry has no such
\* number.  An entry that is no object or has no OBSERVATIONS object is an
\* entry with neither.
Temps == {-3, -2, 64, 67}

Winds == {87, 174}

Entries ==
    [temp : {<<>>} \cup {<<t>> : t \in Temps},
     wind : {<<>>} \cup {<<w>> : w \in Winds}]

RECURSIVE SeqsUpTo(_, _)
SeqsUpTo(S, n) ==
    IF n = 0 THEN {<<>>}
    ELSE SeqsUpTo(S, n - 1)
         \cup {Append(x, e) : x \in {y \in SeqsUpTo(S, n - 1) : Len(y) = n - 1},
                              e \in S}

\* json["STATION"]: not an array, or an array of entries
WeatherBodies ==
    {[isArray |-> FALSE, items |-> <<>>]}
    \cup {[isArray |-> TRUE, items |-> x] : x \in SeqsUpTo(Entries, MaxStations)}

\* the loop over station_array: temps gets the temperature before the wind
\* speed is looked at
RECURSIVE Collect(_, _, _)
Collect(items, temps, winds) ==
    IF items = <<>> THEN [temps |-> temps, winds |-> winds]
    ELSE LET item == Head(items)
         IN  IF item.temp = <<>> THEN Collect(Tail(items), temps, winds)
             ELSE IF item.wind = <<>>
             THEN Collect(Tail(items), Append(temps, item.temp[1]), winds)
             ELSE Collect(Tail(items), Append(temps, item.temp[1]),
                          Append(winds, item.wind[1]))

RECURSIVE Insert(_, _)
Insert(sorted, v) ==
    IF sorted = <<>> THEN <<v>>
    ELSE IF v <= Head(sorted) THEN <<v>> \o sorted
    ELSE <<Head(sorted)>> \o Insert(Tail(sorted), v)

\* std::sort
RECURSIVE SortAsc(_)
Unsorted(xs) == xs
SortAsc(xs) == IF xs = <<>> THEN <<>> ELSE Insert(SortAsc(Tail(xs)), Head(xs))

\* (int)(a / b) for a double quotient: truncation toward zero
TruncDiv(a, b) == IF a >= 0 THEN a \div b ELSE -((-a) \div b)

\* (int)median_temp for sorted temps, entries = temps.size() > 0
MedianTemp(temps) ==
    LET entries == Len(temps)
    IN  IF entries % 2 = 0
        THEN TruncDiv(temps[entries \div 2] + temps[entries \div 2 + 1], 2)
        ELSE temps[entries \div 2 + 1]

\* what reading wind_speeds[i] (0-based) past the end of the vector can give:
\* whatever lies behind its elements, or a fault that ends the task; an empty
\* vector has no storage, and the read faults
PastEndReads(winds) ==
    {[v |-> 0, fault |-> TRUE]}
    \cup (IF winds = <<>> THEN {}
          ELSE {[v |-> g, fault |-> FALSE] : g \in {0, 31337}})

WindAt(winds, i) ==
    IF i < Len(winds) THEN {[v |-> winds[i + 1], fault |-> FALSE]}
    ELSE PastEndReads(winds)

\* (int)(median_wind_speed * 1.151), every value it can take, for sorted
\* winds (hundredths of a knot) and entries = temps.size() > 0; fault says
\* that a read of wind_speeds ended the task
WindMphs(winds, entries) ==
    IF entries % 2 = 0
    THEN {[mph |-> IF a.fault \/ b.fault THEN 0
                   ELSE TruncDiv((a.v + b.v) * 1151, 200000),
           fault |-> a.fault \/ b.fault] :
            a \in WindAt(winds, entries \div 2 - 1),
            b \in WindAt(winds, entries \div 2)}
    ELSE {[mph |-> IF a.fault THEN 0 ELSE TruncDiv(a.v * 1151, 100000),
           fault |-> a.fault] :
            a \in WindAt(winds, entries \div 2)}

\* whether the median computation reads past the end of wind_speeds
ReadsPastEnd(winds, entries) == entries \div 2 >= Len(winds)

\* strftime(buf, "Data: %Y-%m-%d %H:%M:%S"): the date is not modelled
DataLine(w) ==
    "Data: <date> " \o ZeroPad(ToString(Hour(w)), 2) \o ":"
    \o ZeroPad(ToString(Minute(w)), 2) \o ":" \o ZeroPad(ToString(Second(w)), 2)

\* messages_.empty(): a query whose result is discarded
EmptiedAsClear(q) == <<>>
Emptied(q) == q

\* handleData returns false, or dies, before it has pushed anything
Unhandled(q, temps, winds, oob, line0, crashed) ==
    [ret |-> FALSE, q |-> q, offered |-> <<>>, stored |-> <<>>,
     temps |-> temps, winds |-> winds, oob |-> oob, line0 |-> line0,
     crashed |-> crashed]

\* every outcome of handleData(json) on queue q at local time w; crashed
\* says that the call did not return
HandleData(q, body, w, line0) ==
    IF ~body.isArray THEN
        {Unhandled(q, <<>>, <<>>, FALSE, line0, FALSE)}
    ELSE
        LET c       == Collect(body.items, <<>>, <<>>)
            temps   == SortAsc(c.temps)
            winds   == SortAsc(c.winds)
            entries == Len(temps)
        IN  IF entries = 0 THEN
                {Unhandled(q, temps, winds, FALSE, line0, FALSE)}
            ELSE
                { IF m.fault
                  THEN Unhandled(q, temps, winds, TRUE, line0, TRUE)
                  ELSE
                  [ret |-> TRUE,
                   offered |-> <<ToString(MedianTemp(temps)) \o " f",
                                 ToString(m.mph) \o "mph">>,
                   q |-> PushAll(Emptied(q),
                                 <<ToString(MedianTemp(temps)) \o " f",
                                   ToString(m.mph) \o "mph">>),
                   stored |-> Stored(Emptied(q),
                                     <<ToString(MedianTemp(temps)) \o " f",
                                       ToString(m.mph) \o "mph">>),
                   temps |-> temps, winds |-> winds,
                   oob |-> ReadsPastEnd(winds, entries),
                   line0 |-> DataLine(w), crashed |-> FALSE] :
                  m \in WindMphs(winds, entries) }

\* what http.GET() and Json::parse can give fetchData
FetchResults == {"transport", "parse", "body"}

InitWeather ==
    /\ pc = "fetchData"
    /\ json \in WeatherBodies
    /\ messages_ \in {<<>>, <<"nice", "work">>}
    /\ wall = HMS(14, 23, 45)
    /\ uptime = Ms(700 * 1000)
    /\ wifi = "WL_CONNECTED"
    /\ last_message_change_time_ = Ms(70 * 1000)
    /\ intraMinuteDuplicationProtection = 0
    /\ m_lastSeenTime = ""
    /\ lcd = <<"", "Wifi: <ssid> <ip>">>
    /\ ticks = 0
    /\ obs = [kind |-> "none"]
    /\ pushedLog = <<>>
    /\ shownLog = <<>>
    /\ lastShow = NoShow
    /\ lastFireAt = -1
    /\ frame = NoFrame
    /\ suspensions = 0
    /\ buf = Uninitialised

\* fetchData(): the request, which takes its time, the parse and, on a
\* body, handleData(json), which reads time() for the status line
FetchData ==
    /\ pc = "fetchData"
    /\ \E http \in FetchResults, d \in GetMillis :
       \E o \in (IF http = "body"
                 THEN HandleData(messages_, json, Advance(wall, d), lcd[1])
                 ELSE {Unhandled(messages_, <<>>, <<>>, FALSE, lcd[1],
                                 FALSE)}) :
          /\ pc' = IF o.crashed THEN "crashed" ELSE "done"
          /\ uptime' = uptime + d
          /\ wall' = Advance(wall, d)
          /\ messages_' = o.q
          /\ lcd' = <<o.line0, lcd[2]>>
          /\ pushedLog' = pushedLog \o o.stored
          /\ obs' = [kind |-> "fetchData", http |-> http,
                     handled |-> (http = "body"), ret |-> o.ret,
                     temps |-> o.temps, winds |-> o.winds, oob |-> o.oob,
                     crashed |-> o.crashed,
                     offered |-> o.offered, stored |-> o.stored,
                     qBefore |-> messages_, line0Before |-> lcd[1]]
          /\ UNCHANGED <<buf, suspensions, frame, wifi,
                         last_message_change_time_,
                         intraMinuteDuplicationProtection, m_lastSeenTime, json,
                         ticks, shownLog, lastShow, lastFireAt>>

NextWeather == FetchData

SpecWeather == InitWeather /\ [][NextWeather]_vars

----------------------------------------------------------------------------
(* Properties of the scheduler loop *)

TickKinds == {"active", "nightEdge", "quiet"}

\* the showString calls of the last step
Shows(o) == SelectSeq(o.calls, LAMBDA c : c.op = "showString")

Called(o, op) == \E i \in 1..Len(o.calls) : o.calls[i].op = op

QuietHours == (21..23) \cup (0..8)

\* C1, as stated: any two consecutive showString calls of the loop (popped
\* message, idle clock or "night") are at least MESSAGE_CYCLE_INTERVAL apart.
C1_ShowsAtLeastIntervalApart ==
    (obs.kind \in TickKinds /\ Shows(obs) # <<>>
        /\ obs.prevShow.src \in {"queue", "clock", "night"})
    => lastShow.at - obs.prevShow.at >= MESSAGE_CYCLE_INTERVAL_MILLIS

\* What the interval does bound: a popped message is shown more than
\* MESSAGE_CYCLE_INTERVAL after the previous popped message was shown (or
\* after bring-up ended).
PopsMoreThanIntervalApart ==
    (obs.kind = "active" /\ Shows(obs) # <<>> /\ Shows(obs)[1].src = "queue")
    => lastShow.at - obs.prevShow.popAt > MESSAGE_CYCLE_INTERVAL_MILLIS

\* C2, as stated: a tick whose local hour is in 21..23 or 0..8 issues no
\* showString call.
C2_NoShowInQuietHours ==
    (obs.kind \in TickKinds /\ obs.hour \in QuietHours) => Shows(obs) = <<>>

\* C2, amended: a tick whose local hour is in 21..23 or 0..8 issues no
\* showString call, except the tick at 21:00, whose only showString is
\* "night".
C2_NoShowInQuietHoursButEdge ==
    (obs.kind \in TickKinds /\ obs.hour \in QuietHours)
    => IF obs.hour = 21 /\ obs.min = 0
       THEN Shows(obs) = <<Call("showString", "night", "night")>>
       ELSE Shows(obs) = <<>>

\* a tick of the night that found a message pending and the cycle interval
\* elapsed, and showed nothing
C2_Witness ==
    /\ obs.kind = "quiet"
    /\ ~(obs.hour = 21 /\ obs.min = 0)
    /\ Len(obs.qBefore) > 0
    /\ USub(obs.now, obs.changeBefore) > MESSAGE_CYCLE_INTERVAL_MILLIS
    /\ Shows(obs) = <<>>

\* C3: the idle clock is shown only when its string differs from the last
\* clock string shown, so at most once in a civil minute.
C3_ClockShownOnlyOnChange ==
    (obs.kind = "active" /\ Shows(obs) # <<>> /\ Shows(obs)[1].src = "clock")
    => Shows(obs)[1].text # obs.seenBefore

\* C4: two scheduled firings are more than 60000 ms of monotonic time
\* apart: a tick that fires a row (it has read time() and pushes the row's
\* strings) does so more than 60000 ms after the tick before it that fired
\* one did.
C4_FiringsDebounced ==
    (obs.kind = "active" /\ obs.row # "none" /\ obs.prevFireAt >= 0)
    => obs.readAt - obs.prevFireAt > Ms(60000)

\* C5: the popped strings shown are, in order, the strings pushed.
C5_Fifo ==
    /\ Len(shownLog) <= Len(pushedLog)
    /\ \A i \in 1..Len(shownLog) : shownLog[i] = PadForDisplay(pushedLog[i])

\* bring-up's quote strings and then a scheduled row's string were shown
C5_Witness ==
    /\ Len(shownLog) >= 3
    /\ shownLog[1] = "amzn "
    /\ shownLog[3] = "symbl"
    /\ Len(pushedLog) > Len(shownLog)

\* C7: an Active tick with no weather refresh so far performs a fetch.
C7_ActiveTickFetches ==
    (obs.kind = "active" /\ lcd[1] = "") => Called(obs, "fetchData")

\* C10: a quote summary that fails leaves the queue as it was; one that
\* succeeds appends the lowercased symbol and the price.
C10_QuoteAllOrNothing ==
    obs.kind \in {"connectWifi", "active"}
    => \A i \in 1..Len(obs.quotes) :
         LET c == obs.quotes[i]
         IN  IF c.resp.kind = "ok"
             THEN Len(c.after) = Len(c.before) + 2
                  /\ SubSeq(c.after, 1, Len(c.before)) = c.before
                  /\ c.after[Len(c.before) + 1] = ToLowerCase(c.symbol)
             ELSE c.after = c.before

\* C11: the display cycles exactly when more than MESSAGE_CYCLE_INTERVAL has
\* really elapsed since the last pop, whatever millis() has wrapped to: a
\* tick of the day that runs to its end shows something if and only if the
\* true elapsed time exceeds the interval, and what it shows is the front of
\* the queue when a string is pending and the clock otherwise.
C11_CyclesWhenIntervalElapsed ==
    (obs.kind = "active" /\ ~obs.died)
    => LET elapsed == obs.at - obs.prevShow.popAt
           pending == Len(obs.qBefore) + Len(obs.stored)
       IN  /\ (Shows(obs) # <<>>) <=> (elapsed > MESSAGE_CYCLE_INTERVAL_MILLIS)
           /\ Shows(obs) # <<>>
              => Shows(obs)[1].src = (IF pending > 0 THEN "queue" ELSE "clock")

\* C12: throughout quiet hours the display holds the legend: after every
\* tick whose local hour is in 21..23 or 0..8, the last string commanded to
\* the display is the "night" of the night edge, which disableAll follows.
C12_NightLegendHeld ==
    (obs.kind \in TickKinds /\ obs.hour \in QuietHours)
    => (lastShow.src = "night" /\ lastShow.nightAt = lastShow.at)

\* C13: the tick at local 21:00 commands showString("night") and then
\* disableAll, in that order, pauses 60 s and does nothing else (no scheduled
\* event, no queue pop, no clock, no status line); and "night" is commanded at
\* most once in an evening: a tick that commands it finds no "night"
\* commanded in the twelve hours before.
C13_NightEdgeOnce ==
    obs.kind = "nightEdge"
    => /\ obs.hour = 21 /\ obs.min = 0
       /\ obs.calls = <<Call("showString", "night", "night"),
                        Call("disableAll", "", "")>>
       /\ uptime - obs.readAt = Ms(60000)
       /\ obs.row = "none" /\ obs.stored = <<>> /\ obs.quotes = <<>>
       /\ messages_ = obs.qBefore
       /\ m_lastSeenTime = obs.seenBefore
       /\ last_message_change_time_ = obs.changeBefore
       /\ intraMinuteDuplicationProtection = obs.fireBefore
       /\ obs.prevShow.nightAt >= 0
          => obs.at - obs.prevShow.nightAt >= Ms(12 * 3600 * 1000)

\* the night edge acted with a string pending and the cycle interval elapsed,
\* and the tick after it, at 21:01, commanded nothing
C13_Witness ==
    /\ obs.kind = "quiet"
    /\ obs.hour = 21 /\ obs.min = 1
    /\ lastShow.nightAt = obs.at - Ms(60000)
    /\ lastShow.src = "night"
    /\ Len(messages_) > 0
    /\ USub(obs.now, obs.changeBefore) > MESSAGE_CYCLE_INTERVAL_MILLIS

\* the WiFi.reconnect() calls of the last step
Reconnects(o) == SelectSeq(o.calls, LAMBDA c : c.op = "reconnect")

\* the reads of WiFi.status() the last step made
StatusSeen(o) == {o.st.at419, o.st.at424, LinkUp(o.st.at499)} \ {Unread}

\* C14: a tick of the day on which the network status is not connected
\* issues exactly one reconnect attempt, whatever the time and the row.
C14_ReconnectEveryDisconnectedTick ==
    (obs.kind = "active" /\ "down" \in StatusSeen(obs))
    => Len(Reconnects(obs)) = 1

\* the strings the last step took off the queue
Popped(o) == Len(o.qBefore) + Len(o.stored) - Len(messages_)

\* C15: a tick issues at most one showString call and pops at most one
\* string, however long the loop was suspended and however many strings are
\* pending.
C15_OneCyclePerTick ==
    obs.kind \in TickKinds
    => (Len(Shows(obs)) <= 1 /\ Popped(obs) \in {0, 1})

\* a tick that found three strings or more pending, five minutes or more
\* after the last pop, and popped one
C15_Witness ==
    /\ obs.kind = "active"
    /\ Len(obs.qBefore) + Len(obs.stored) >= 3
    /\ obs.at - obs.prevShow.popAt >= Ms(5 * 60 * 1000)
    /\ Popped(obs) = 1
    /\ Len(Shows(obs)) = 1

\* C17: a tick at local 11:35 with the debounce gate open.  If the network
\* is still not connected after the reconnect attempt, nothing is pushed and
\* the debounce timer keeps its value.  If it is connected, "symbl" and
\* "price" are pushed, then the strings of the AMZN quote, then those of the
\* VOO quote, and the debounce timer is set to the tick's now.
C17_QuoteRow ==
    (obs.kind = "active" /\ obs.hour = 11 /\ obs.min = 35
        /\ USub(obs.now, obs.fireBefore) > Ms(60000))
    => /\ Len(Reconnects(obs)) = (IF obs.st.at419 = "up" THEN 0 ELSE 1)
       /\ IF obs.st.at424 # "up"
          THEN /\ obs.stored = <<>>
               /\ obs.quotes = <<>>
               /\ intraMinuteDuplicationProtection = obs.fireBefore
          ELSE /\ Len(obs.quotes) = 2
               /\ obs.quotes[1].symbol = "AMZN"
               /\ obs.quotes[2].symbol = "VOO"
               /\ obs.quotes[1].offered[1] = "amzn"
               /\ obs.quotes[2].offered[1] = "voo"
               /\ obs.stored = <<"symbl", "price">> \o obs.quotes[1].offered
                                   \o obs.quotes[2].offered
               /\ intraMinuteDuplicationProtection = obs.now

\* C18: whatever the price, the price string pushed by the quote summary is
\* exactly 5 characters wide, what dtostrf writes fits the 6-byte buffer
\* (5 characters and the terminator), and it has 2 fractional digits when the
\* price is below 100, 1 below 1000, none below 100000, and is " big "
\* otherwise.
C18_PriceFiveWide ==
    obs.kind = "quote"
    => /\ Len(obs.offered) = 2
       /\ Len(obs.written) = 5
       /\ obs.offered[2] = obs.written
       /\ IF obs.price < 100 * 1000 THEN SubSeq(obs.written, 3, 3) = "."
          ELSE IF obs.price < 1000 * 1000 THEN SubSeq(obs.written, 4, 4) = "."
          ELSE IF obs.price < 100000 * 1000
          THEN \A i \in 1..5 : SubSeq(obs.written, i, i) # "."
          ELSE obs.written = " big "

\* C19: every string pushed onto the queue is eventually passed to
\* showString: again and again the popped strings shown are exactly the
\* strings pushed so far, in order, each padded for the display.
C19_EveryPushedShown ==
    []<>(shownLog = [i \in 1..Len(pushedLog) |-> PadForDisplay(pushedLog[i])])

\* the rows of the table that need no network
IndependentRows == {"0900", "1200", "1300", "1355", "1700"}

\* C20: a network-independent row is pushed exactly once in its minute on a
\* day the loop ticks in that minute, whatever the uptime.  A tick in the
\* row's minute that fires pushes the row's strings in table order and is
\* the first of the minute to fire; and when the next tick falls outside
\* the minute, the row has fired during the minute.
C20_IndependentRowsFireOnce ==
    (obs.kind = "active"
        /\ ScheduledRow(obs.hour, obs.min) \in IndependentRows)
    => /\ obs.row # "none"
          => /\ obs.row = ScheduledRow(obs.hour, obs.min)
             /\ obs.stored = RowStrings(obs.row)
             /\ (obs.prevFireAt < 0
                    \/ obs.readAt - obs.prevFireAt >= Ms(60000))
       /\ ~(Hour(wall) = obs.hour /\ Minute(wall) = obs.min)
          => (lastFireAt >= 0 /\ obs.readAt - lastFireAt < Ms(60000))

----------------------------------------------------------------------------
(* Properties of the weather summary *)

Range(f) == {f[i] : i \in DOMAIN f}

Complete(body) ==
    /\ body.isArray
    /\ Len(body.items) > 0
    /\ \A i \in 1..Len(body.items) :
         body.items[i].temp # <<>> /\ body.items[i].wind # <<>>

TempsOf(body) == [i \in 1..Len(body.items) |-> body.items[i].temp[1]]

\* the k-th smallest of the values of ts, by counting
OrderStat(ts, k) ==
    CHOOSE v \in Range(ts) :
        /\ Cardinality({i \in DOMAIN ts : ts[i] < v}) < k
        /\ Cardinality({i \in DOMAIN ts : ts[i] <= v}) >= k

\* twice the median: the central order statistic twice, or the sum of the
\* two central ones
TwiceMedian(ts) ==
    IF Len(ts) % 2 = 1 THEN 2 * OrderStat(ts, (Len(ts) + 1) \div 2)
    ELSE OrderStat(ts, Len(ts) \div 2) + OrderStat(ts, Len(ts) \div 2 + 1)

\* m is x/2 truncated toward zero
IsHalfTruncated(m, x) ==
    /\ Abs(x) - 2 * Abs(m) \in {0, 1}
    /\ (m > 0 => x > 0)
    /\ (m < 0 => x < 0)

\* C8: the temperature set and the wind set have the same size after
\* collection, and the median computation reads nothing outside the wind set.
C8_PairsOnly ==
    (obs.kind = "fetchData" /\ obs.handled)
    => (Len(obs.temps) = Len(obs.winds) /\ ~obs.oob)

\* C9: for a non-empty body of complete pairs, the temperature string pushed
\* is "<m> f" with m the median truncated toward zero.
C9_MedianTemp ==
    (obs.kind = "fetchData" /\ obs.handled /\ Complete(json))
    => /\ obs.ret
       /\ Len(obs.stored) = 2
       /\ \E m \in -100..100 :
            /\ IsHalfTruncated(m, TwiceMedian(TempsOf(json)))
            /\ obs.stored[1] = ToString(m) \o " f"

\* an even number of pairs whose two central temperatures have an odd,
\* negative sum
C9_Witness ==
    /\ obs.kind = "fetchData"
    /\ obs.handled
    /\ Complete(json)
    /\ Len(json.items) = 2
    /\ TwiceMedian(TempsOf(json)) = -5
    /\ obs.stored[1] = "-2 f"

\* whether s ends with suffix, after at least one more character
EndsWith(s, suffix) ==
    /\ Len(s) > Len(suffix)
    /\ SubSeq(s, Len(s) - Len(suffix) + 1, Len(s)) = suffix

\* C16: the weather summary removes no pending string.  When handleData
\* succeeds the queue is the queue before followed by the temperature string
\* and then the wind string; when it fails, or is not reached, the queue and
\* status line 0 are as before.
C16_WeatherOnlyAppends ==
    obs.kind = "fetchData"
    => IF obs.ret
       THEN /\ Len(obs.offered) = 2
            /\ messages_ = obs.qBefore \o obs.offered
            /\ EndsWith(obs.offered[1], " f")
            /\ EndsWith(obs.offered[2], "mph")
       ELSE /\ messages_ = obs.qBefore
            /\ lcd[1] = obs.line0Before

\* handleData succeeded with strings pending
C16_Witness ==
    /\ obs.kind = "fetchData"
    /\ obs.handled
    /\ obs.ret
    /\ obs.qBefore = <<"nice", "work">>
    /\ messages_ = <<"nice", "work", "64 f", "1mph">>
    /\ lcd[1] # obs.line0Before

\* handleData failed on an array with no usable entry, with strings pending
C16_FailureReached ==
    /\ obs.kind = "fetchData"
    /\ obs.handled
    /\ ~obs.ret
    /\ json.isArray
    /\ Len(json.items) > 0
    /\ obs.qBefore = <<"nice", "work">>

====
